---- MODULE Spec2Model ----
(***************************************************************************)
(* A model of the MCP client of src/unnamed/part_000 (src/index.ts): the   *)
(* process main -> connectToServers -> chatLoop -> cleanup, and within the *)
(* chat loop one processQuery at a time.                                   *)
(*                                                                         *)
(* Text is modelled as a sequence of lexical tokens, each token a TLA+     *)
(* string: "TOOL:" and "ID:" are the two literals the regular expressions  *)
(* look for, word tokens are runs of \w characters, " " and "\n" are       *)
(* whitespace, and the punctuation of JSON is one token per character.     *)
(* The regular expressions, JSON.parse and parseInt are computed over      *)
(* these sequences the way the JavaScript engine computes them over        *)
(* characters.                                                             *)
(***************************************************************************)
EXTENDS Integers, Sequences, FiniteSets, TLC

VARIABLES
    mainPc,       \* position of main / chatLoop / cleanup
    conn,         \* per gateway: state of the connect() started at lines 34-35
    closeCalled,  \* gateways on which close() has been called
    query,        \* the line read by rl.question
    pc,           \* position of the running processQuery
    llmStatus,    \* HTTP status class of the completion response ("none" before)
    output,       \* the local `output` of processQuery
    toolName,     \* the local `toolName`
    args,         \* the local `args`
    textOutput,   \* the local `textOutput`
    calls,        \* the external calls this processQuery has issued, in order
    outcome,      \* how the processQuery ended: "none", "returned" or "threw"
    response,     \* the string it returned
    thrown,       \* the stage whose error it raised
    srv           \* the request a gateway server is handling, and its answer

\* the client process
clientVars == <<mainPc, conn, closeCalled, query, pc, llmStatus, output, toolName,
                args, textOutput, calls, outcome, response, thrown>>

vars == <<clientVars, srv>>

----------------------------------------------------------------------------
(* Bounds of the model *)

\* longest run of words put before a TOOL: marker in the LLM text
MaxProse == 1
\* most content items in one gateway result
MaxItems == 2

----------------------------------------------------------------------------
(* Tokens *)

Q == "\""

Digits == {"0", "1", "2", "3", "4", "5", "6", "7", "8", "9"}

DigitTok == <<"0", "1", "2", "3", "4", "5", "6", "7", "8", "9">>

\* line 116 testing the name against all four tools
SearchToolsAll ==
    {<<"searchPeopleByName">>, <<"searchPublicationsByAuthor">>,
     <<"getPersonById">>, <<"getPublicationById">>}

\* the four tools the system prompt names
SearchTools == {<<"searchPeopleByName">>, <<"searchPublicationsByAuthor">>}

GetTools == {<<"getPersonById">>, <<"getPublicationById">>}

CatalogNames == SearchTools \cup GetTools

\* tokens made of \w characters only
WordToks ==
    {"searchPeopleByName", "getPersonById", "searchPublicationsByAuthor",
     "getPublicationById", "deleteAll", "X", "name", "Jane", "id", "author"}
    \cup Digits

\* tokens matched by \s
SpaceToks == {" ", "\n"}

Min(S) == CHOOSE x \in S : \A y \in S : x <= y

Max(S) == CHOOSE x \in S : \A y \in S : x >= y

\* the last index of the longest run of tokens of S that starts at s[i]
\* (i - 1 when s[i] is not in S): a greedy quantifier over one character class
RunEnd(s, i, S) ==
    LET stops == {j \in i..Len(s) : s[j] \notin S}
    IN  IF stops = {} THEN Len(s) ELSE Min(stops) - 1

\* whether p occurs in s as a contiguous run
Contains(s, p) ==
    \E i \in 1..(Len(s) - Len(p) + 1) : SubSeq(s, i, i + Len(p) - 1) = p

\* String.prototype.startsWith
StartsWith(s, p) ==
    Len(p) <= Len(s) /\ SubSeq(s, 1, Len(p)) = p

\* parseInt of a run of decimal digits
RECURSIVE ParseInt(_)
ParseInt(ds) ==
    IF ds = <<>> THEN 0
    ELSE 10 * ParseInt(SubSeq(ds, 1, Len(ds) - 1))
         + (CHOOSE k \in 0..9 : DigitTok[k + 1] = ds[Len(ds)])

----------------------------------------------------------------------------
(* output.match(/TOOL:(\w+)\s+({[^}]*})/) *)

NoMatch == [found |-> FALSE, name |-> <<>>, raw |-> <<>>]

\* the match that starts at s[i], if there is one
ToolMatchAt(s, i) ==
    LET n == RunEnd(s, i + 1, WordToks)
        w == RunEnd(s, n + 1, SpaceToks)
        closers == {j \in (w + 2)..Len(s) : s[j] = "}"}
    IN  IF /\ s[i] = "TOOL:"
           /\ n >= i + 1
           /\ w >= n + 1
           /\ w + 1 <= Len(s)
           /\ s[w + 1] = "{"
           /\ closers # {}
        THEN [found |-> TRUE,
              name |-> SubSeq(s, i + 1, n),
              raw |-> SubSeq(s, w + 1, Min(closers))]
        ELSE NoMatch

\* the rightmost match
ToolMatchLast(s) ==
    LET hits == {i \in 1..Len(s) : ToolMatchAt(s, i).found}
    IN  IF hits = {} THEN NoMatch ELSE ToolMatchAt(s, Max(hits))

\* the leftmost match
ToolMatch(s) ==
    LET hits == {i \in 1..Len(s) : ToolMatchAt(s, i).found}
    IN  IF hits = {} THEN NoMatch ELSE ToolMatchAt(s, Min(hits))

----------------------------------------------------------------------------
(* JSON.parse(argJsonRaw) *)

BadLexeme == [k |-> "bad", v |-> <<>>]

\* the lexemes of s from s[i] on: strings, numbers and punctuation, whitespace
\* dropped; anything else, an unterminated string, a raw newline in a string
\* and a number with a leading zero are lexical errors
RECURSIVE Lex(_, _)
Lex(s, i) ==
    IF i > Len(s) THEN <<>>
    ELSE IF s[i] \in SpaceToks THEN Lex(s, i + 1)
    ELSE IF s[i] = Q THEN
        LET closes == {j \in (i + 1)..Len(s) : s[j] = Q}
        IN  IF closes = {} THEN <<BadLexeme>>
            ELSE LET body == SubSeq(s, i + 1, Min(closes) - 1)
                 IN  IF \E j \in 1..Len(body) : body[j] = "\n"
                     THEN <<BadLexeme>>
                     ELSE <<[k |-> "str", v |-> body]>> \o Lex(s, Min(closes) + 1)
    ELSE IF s[i] \in Digits THEN
        LET d == RunEnd(s, i, Digits)
        IN  IF d > i /\ s[i] = "0" THEN <<BadLexeme>>
            ELSE <<[k |-> "num", v |-> ParseInt(SubSeq(s, i, d))]>> \o Lex(s, d + 1)
    ELSE IF s[i] \in {"{", "}", ":", ","} THEN
        <<[k |-> s[i], v |-> <<>>]>> \o Lex(s, i + 1)
    ELSE <<BadLexeme>>

\* a JSON value: a number or a string
JsonNum(n) == [t |-> "num", v |-> n]

JsonStr(s) == [t |-> "str", v |-> s]

EmptyObject == [key \in {} |-> JsonNum(0)]

ParseError == [ok |-> FALSE, value |-> EmptyObject]

\* JSON.parse of a text that is one flat object: "{" then members
\* string ":" value separated by "," then "}"; a repeated key keeps its last
\* value.  The value is a function from key to JSON value.
JSONParse(raw) ==
    LET L == Lex(raw, 1)
        M == SubSeq(L, 2, Len(L) - 1)
        m == (Len(M) + 1) \div 4
        shape ==
            /\ Len(L) >= 2
            /\ L[1].k = "{"
            /\ L[Len(L)].k = "}"
            /\ (Len(M) = 0 \/ Len(M) % 4 = 3)
            /\ \A p \in 1..Len(M) :
                  CASE p % 4 = 1 -> M[p].k = "str"
                    [] p % 4 = 2 -> M[p].k = ":"
                    [] p % 4 = 3 -> M[p].k \in {"str", "num"}
                    [] OTHER     -> M[p].k = ","
        keys == {M[4 * j - 3].v : j \in 1..m}
        last(key) == Max({j \in 1..m : M[4 * j - 3].v = key})
        val(x) == IF x.k = "num" THEN JsonNum(x.v) ELSE JsonStr(x.v)
    IN  IF shape
        THEN [ok |-> TRUE, value |-> [key \in keys |-> val(M[4 * last(key) - 1])]]
        ELSE ParseError

----------------------------------------------------------------------------
(* textOutput.match(/ID:\s*(\d+)/) *)

NoId == [found |-> FALSE, digits |-> <<>>]

\* the regex with \s+ in place of \s*
IdMatchAtSpaced(t, i) ==
    LET w == RunEnd(t, i + 1, SpaceToks)
        d == RunEnd(t, w + 1, Digits)
    IN  IF t[i] = "ID:" /\ w >= i + 1 /\ d >= w + 1
        THEN [found |-> TRUE, digits |-> SubSeq(t, w + 1, d)]
        ELSE NoId

IdMatchAt(t, i) ==
    LET w == RunEnd(t, i + 1, SpaceToks)
        d == RunEnd(t, w + 1, Digits)
    IN  IF t[i] = "ID:" /\ d >= w + 1
        THEN [found |-> TRUE, digits |-> SubSeq(t, w + 1, d)]
        ELSE NoId

IdMatch(t) ==
    LET hits == {i \in 1..Len(t) : IdMatchAt(t, i).found}
    IN  IF hits = {} THEN NoId ELSE IdMatchAt(t, Min(hits))

----------------------------------------------------------------------------
(* What arrives from outside: lines, completion responses, gateway results *)

Gateways == {"people", "pubs"}

\* lines typed at the prompt
Lines == {"quit", "QUIT", "Quit", "Quit now"}

\* `query` of an iteration of chatLoop that has not read its line
NoLine == "<none>"

\* line 154 comparing the line as typed
ToLowerCaseNone(line) == line

\* String.prototype.toLowerCase on those lines
ToLowerCase(line) ==
    CASE line \in {"quit", "QUIT", "Quit"} -> "quit"
      [] line = "Quit now"                 -> "quit now"
      [] OTHER                             -> line

\* sequences of at most n tokens of S
RECURSIVE SeqsUpTo(_, _)
SeqsUpTo(S, n) ==
    IF n = 0 THEN {<<>>}
    ELSE LET shorter == SeqsUpTo(S, n - 1)
         IN  shorter \cup {Append(s, x) : s \in shorter, x \in S}

\* the name part of a TOOL: marker an LLM may emit: the four tools, a tool the
\* servers do not have, names that only start with a tool's name, and none
MarkerNames ==
    CatalogNames \cup
    {<<"deleteAll">>, <<"searchPeopleByName", "X">>, <<"getPersonById", "7">>, <<>>}

MarkerSeps == {<<>>, <<" ">>, <<"\n", " ">>}

\* the argument part: valid flat objects, and texts JSON.parse rejects
MarkerArgs ==
    {<<"{", "}">>,
     <<"{", Q, "id", Q, ":", " ", "4", "2", "}">>,
     <<"{", Q, "name", Q, ":", Q, "Jane", " ", "X", Q, "}">>,
     <<"{", Q, "id", Q, ":", "1", ",", Q, "id", Q, ":", "2", "}">>,
     <<"{", "name", ":", " ", "Jane", "}">>,
     <<"{", Q, "id", Q, ":", "0", "7", "}">>,
     <<"{", Q, "id", Q, ":", "1", ",", "}">>,
     <<"{", Q, "author", Q, ":", "{", Q, "id", Q, ":", "1", "}", "}">>,
     <<"{", Q, "id", Q, ":", "1">>}

Markers ==
    {<<"TOOL:">> \o n \o s \o a : n \in MarkerNames, s \in MarkerSeps, a \in MarkerArgs}

\* what follows the marker: nothing, prose, or a second marker
MarkerTails ==
    {<<>>,
     <<" ", "X">>,
     <<"\n", "TOOL:", "getPersonById", " ", "{", Q, "id", Q, ":", "1", "}">>,
     <<"\n", "TOOL:", "getPersonById", " ", "{", "id", "}">>}

\* prose that opens a marker and never closes its brace
UnclosedProse == <<"TOOL:", "X", " ", "{", " ">>

\* a marker that comes after such prose
ChainedTexts ==
    {UnclosedProse \o <<"TOOL:">> \o n \o <<" ">> \o a : n \in GetTools, a \in MarkerArgs}

\* the texts a completion may carry: before the marker a run of words, a
\* blank or a bare TOOL:
LLMTexts ==
    {p \o m \o t : p \in SeqsUpTo({"X"}, MaxProse) \cup {<<" ">>, <<"TOOL:">>},
                   m \in Markers \cup {<<>>},
                   t \in MarkerTails}
    \cup ChainedTexts

\* the body of the completion response, as response.json() sees it
Bodies ==
    {[kind |-> k, content |-> <<>>] :
        k \in {"notjson", "null", "nochoices", "emptychoices", "nomessage", "nocontent"}}
    \cup {[kind |-> "content", content |-> c] : c \in LLMTexts}

\* line 82 without its `|| ""`
ResolveOutputUndefined(body) ==
    IF body.kind = "content" THEN body.content ELSE <<"undefined">>

\* result.choices?.[0]?.message?.content || ""
ResolveOutput(body) ==
    IF body.kind = "content" THEN body.content ELSE <<>>

\* the content items of a gateway result
Items ==
    {[type |-> "text", text |-> <<"ID:">>],
     [type |-> "text", text |-> <<"4", "2", " ", "ID:", "0", "7">>],
     [type |-> "image", text |-> <<>>]}

Contents == SeqsUpTo(Items, MaxItems)

\* how a callTool settles: it rejects, or resolves with a list of content items
Replies ==
    {[ok |-> FALSE, content |-> <<>>]} \cup {[ok |-> TRUE, content |-> c] : c \in Contents}

\* lines 142-146, formatContent: an item of another type becomes "" and is
\* joined like the others
RECURSIVE JoinTextAll(_)
JoinTextAll(content) ==
    IF content = <<>> THEN <<>>
    ELSE LET first == IF Head(content).type = "text" THEN Head(content).text ELSE <<>>
         IN  IF Len(content) = 1 THEN first
             ELSE first \o <<"\n">> \o JoinTextAll(Tail(content))

\* content.filter(c => c.type === "text").map(c => c.text).join("\n")
RECURSIVE JoinText(_)
JoinText(content) ==
    IF content = <<>> THEN <<>>
    ELSE LET rest == JoinText(Tail(content))
         IN  IF Head(content).type # "text" THEN rest
             ELSE IF \E j \in 2..Len(content) : content[j].type = "text"
                  THEN Head(content).text \o <<"\n">> \o rest
                  ELSE Head(content).text

----------------------------------------------------------------------------
(* processQuery, lines 40-139 *)

\* the ternary without its startsWith clause
GatewayForGetOnly(name) ==
    IF name = <<"getPersonById">> THEN "people" ELSE "pubs"

\* the ternary without its getPersonById clause
GatewayForSearchOnly(name) ==
    IF StartsWith(name, <<"searchPeopleByName">>) THEN "people" ELSE "pubs"

\* the client the ternary of lines 105-107 and 126-128 selects
GatewayFor(name) ==
    IF StartsWith(name, <<"searchPeopleByName">>) \/ name = <<"getPersonById">>
    THEN "people"
    ELSE "pubs"

\* line 123 without the choice between the two detail tools
FollowupToolPerson(name) == <<"getPersonById">>

\* line 123
FollowupTool(name) ==
    IF name = <<"searchPeopleByName">> THEN <<"getPersonById">> ELSE <<"getPublicationById">>

\* the arguments { id } of line 128
IdArgs(id) == [key \in {<<"id">>} |-> JsonNum(id)]

\* the three strings of lines 119, 135 and 138
\* line 119 without the interpolated text
NoIdResponseBare(text) == <<"Search complete, but no valid ID found:\n">>

NoIdResponse(text) == <<"Search complete, but no valid ID found:\n">> \o text

\* line 135 without the search part
FullResponseDetailOnly(text, details) == <<"Detailed Info:\n">> \o details

FullResponse(text, details) ==
    <<"Search Result:\n">> \o text \o <<"\n\nDetailed Info:\n">> \o details

ToolResponse(text) == <<"Tool Output:\n">> \o text

\* line 88 returning the notice of line 87 in place of the text
NoToolResponseNotice(text) == <<"No tool pattern detected.">>

\* line 88: return output
NoToolResponse(text) == text

\* how a processQuery ends
Returned(resp) == [outcome |-> "returned", response |-> resp, thrown |-> "none"]

Threw(stage) == [outcome |-> "threw", response |-> <<>>, thrown |-> stage]

\* a record of one external call
\* (body: what response.json() gave the completion call; content: the content
\* items a gateway call resolved with)
Call(to, name, a) ==
    [to |-> to, name |-> name, args |-> a, result |-> "pending",
     body |-> "none", content |-> <<>>]

\* the last call of the log has settled: it "resolved" or it "rejected"
Settled(log, how) == [log EXCEPT ![Len(log)].result = how]

\* the last call of the log has resolved with these content items
Received(log, content) ==
    [log EXCEPT ![Len(log)].result = "resolved", ![Len(log)].content = content]

\* response.json() of the completion call has settled with a body of this kind
Parsed(log, kind) == [log EXCEPT ![1].body = kind]

\* lines 85-101 with a catch block that goes on with empty arguments
ExtractLenient(text) ==
    LET m == ToolMatch(text)
        parsed == JSONParse(m.raw)
    IN  IF ~m.found THEN [kind |-> "none", name |-> <<>>, args |-> EmptyObject]
        ELSE [kind |-> "call", name |-> m.name, args |-> parsed.value]

\* lines 85-101: the tool call the text carries, none, or a parse failure
Extract(text) ==
    LET m == ToolMatch(text)
        parsed == JSONParse(m.raw)
    IN  IF ~m.found THEN [kind |-> "none", name |-> <<>>, args |-> EmptyObject]
        ELSE IF ~parsed.ok THEN [kind |-> "malformed", name |-> m.name, args |-> EmptyObject]
        ELSE [kind |-> "call", name |-> m.name, args |-> parsed.value]

\* a rejection of the awaited callTool of lines 105-107: nothing catches it
ToolCallRejected(text) == Threw("callTool")

\* lines 126-128 wrapped in a catch that falls back to the search text
FollowupRejectedPartial(text) == Returned(ToolResponse(text))

\* a rejection of the awaited callTool of lines 126-128: nothing catches it
FollowupRejected(text) == Threw("followup")

\* processQuery ends: chatLoop prints the response (line 158) or the error
\* (line 160) and, in a new iteration that has no `query` yet, asks for the
\* next line (line 153)
Finish(r) ==
    /\ outcome' = r.outcome
    /\ response' = r.response
    /\ thrown' = r.thrown
    /\ pc' = "done"
    /\ mainPc' = "question"
    /\ query' = NoLine

\* line 62: fetch resolves with a response of some status; line 75 then awaits
\* response.json()
FetchResolves ==
    /\ mainPc = "query" /\ pc = "fetch"
    /\ \E st \in {"ok", "error"} : llmStatus' = st
    /\ calls' = Settled(calls, "resolved")
    /\ pc' = "json"
    /\ UNCHANGED <<mainPc, conn, closeCalled, query, output, toolName, args,
                   textOutput, outcome, response, thrown, srv>>

\* line 62: fetch rejects (the endpoint cannot be reached)
FetchRejects ==
    /\ mainPc = "query" /\ pc = "fetch"
    /\ calls' = Settled(calls, "rejected")
    /\ Finish(Threw("fetch"))
    /\ UNCHANGED <<conn, closeCalled, llmStatus, output, toolName, args,
                   textOutput, srv>>

\* lines 75-107: response.json() settles; the text is resolved, the tool call
\* extracted and, when there is one, the first callTool issued.  The body of
\* a response of error status carries no completion.
JsonSettlesWith(body) ==
    /\ mainPc = "query" /\ pc = "json"
    /\ llmStatus = "error" => body.kind # "content"
    /\ IF body.kind \in {"notjson", "null"}
       THEN /\ Finish(Threw(IF body.kind = "notjson" THEN "json" ELSE "resolve"))
            /\ calls' = Parsed(calls, body.kind)
            /\ UNCHANGED <<output, toolName, args>>
       ELSE LET out == ResolveOutput(body)
                x == Extract(out)
            IN  /\ output' = out
                /\ CASE x.kind = "none" ->
                          /\ Finish(Returned(NoToolResponse(out)))
                          /\ calls' = Parsed(calls, body.kind)
                          /\ UNCHANGED <<toolName, args>>
                     [] x.kind = "malformed" ->
                          /\ toolName' = x.name
                          /\ Finish(Threw("parse"))
                          /\ calls' = Parsed(calls, body.kind)
                          /\ UNCHANGED args
                     [] OTHER ->
                          /\ toolName' = x.name
                          /\ args' = x.args
                          /\ calls' = Append(Parsed(calls, body.kind),
                                             Call(GatewayFor(x.name), x.name, x.args))
                          /\ pc' = "callTool"
                          /\ UNCHANGED <<mainPc, query, outcome, response, thrown>>
    /\ UNCHANGED <<conn, closeCalled, llmStatus, textOutput>>

\* line 75: response.json() settles with one of the bodies
JsonSettles ==
    /\ mainPc = "query" /\ pc = "json"
    /\ \E body \in Bodies : JsonSettlesWith(body)
    /\ UNCHANGED srv

\* lines 105-138: the first callTool settles with this reply
ToolSettlesWith(reply) ==
    /\ mainPc = "query" /\ pc = "callTool"
    /\ conn[calls[Len(calls)].to] = "failed" => ~reply.ok
    /\ IF ~reply.ok
       THEN /\ calls' = Settled(calls, "rejected")
            /\ Finish(ToolCallRejected(<<>>))
            /\ UNCHANGED textOutput
       ELSE LET text == JoinText(reply.content)
                idMatch == IdMatch(text)
                log == Received(calls, reply.content)
            IN  /\ textOutput' = text
                /\ IF toolName \notin SearchTools
                   THEN /\ calls' = log
                        /\ Finish(Returned(ToolResponse(text)))
                   ELSE IF ~idMatch.found
                   THEN /\ calls' = log
                        /\ Finish(Returned(NoIdResponse(text)))
                   ELSE LET followupTool == FollowupTool(toolName)
                        IN  /\ calls' = Append(log,
                                               Call(GatewayFor(followupTool), followupTool,
                                                    IdArgs(ParseInt(idMatch.digits))))
                            /\ pc' = "followup"
                            /\ UNCHANGED <<mainPc, query, outcome, response, thrown>>
    \* `output` is not read after line 85
    /\ output' = <<>>
    /\ UNCHANGED <<conn, closeCalled, llmStatus, toolName, args>>

\* lines 105-138: the first callTool settles
ToolSettles ==
    /\ mainPc = "query" /\ pc = "callTool"
    /\ \E reply \in Replies : ToolSettlesWith(reply)
    /\ UNCHANGED srv

\* lines 126-135: the follow-up callTool settles with this reply
FollowupSettlesWith(reply) ==
    /\ mainPc = "query" /\ pc = "followup"
    /\ conn[calls[Len(calls)].to] = "failed" => ~reply.ok
    /\ IF ~reply.ok
       THEN /\ calls' = Settled(calls, "rejected")
            /\ Finish(FollowupRejected(textOutput))
       ELSE /\ calls' = Received(calls, reply.content)
            /\ Finish(Returned(FullResponse(textOutput, JoinText(reply.content))))
    /\ UNCHANGED <<conn, closeCalled, llmStatus, output, toolName, args, textOutput>>

\* lines 126-135: the follow-up callTool settles
FollowupSettles ==
    /\ mainPc = "query" /\ pc = "followup"
    /\ \E reply \in Replies : FollowupSettlesWith(reply)
    /\ UNCHANGED srv

----------------------------------------------------------------------------
(* main, connectToServers, chatLoop and cleanup *)

\* no processQuery frame is alive: its locals and its result are gone
NoQuery ==
    /\ pc' = "idle"
    /\ llmStatus' = "none"
    /\ output' = <<>>
    /\ toolName' = <<>>
    /\ args' = EmptyObject
    /\ textOutput' = <<>>
    /\ calls' = <<>>
    /\ outcome' = "none"
    /\ response' = <<>>
    /\ thrown' = "none"

\* where the process is over
Ended == {"usage", "exit0", "rejected", "crashed"}

\* lines 177-180: an argument is missing: usage is printed, no client is made
MainUsage ==
    /\ mainPc = "start"
    /\ mainPc' = "usage"
    /\ UNCHANGED <<conn, closeCalled, query, pc, llmStatus, output, toolName,
                   args, textOutput, calls, outcome, response, thrown, srv>>

\* lines 182-185, 28-38 and 149-153: the client is made, both connect() calls
\* are started and not awaited, and chatLoop asks for the first line
MainStart ==
    /\ mainPc = "start"
    /\ conn' = [g \in Gateways |-> "connecting"]
    /\ mainPc' = "question"
    /\ UNCHANGED <<closeCalled, query, pc, llmStatus, output, toolName, args,
                   textOutput, calls, outcome, response, thrown, srv>>

\* a connect() started at lines 34-35 resolves
ConnectResolves(g) ==
    /\ mainPc \notin Ended
    /\ conn[g] = "connecting"
    /\ conn' = [conn EXCEPT ![g] = "connected"]
    /\ UNCHANGED <<mainPc, closeCalled, query, pc, llmStatus, output, toolName,
                   args, textOutput, calls, outcome, response, thrown, srv>>

\* a connect() started at lines 34-35 rejects; nothing holds its promise, so
\* the rejection is unhandled: the runtime ends the process there or only
\* warns, by its version and flags
ConnectRejects(g) ==
    /\ mainPc \notin Ended
    /\ conn[g] = "connecting"
    /\ conn' = [conn EXCEPT ![g] = "failed"]
    /\ \/ /\ mainPc' = "crashed"
          /\ NoQuery
       \/ /\ mainPc' = mainPc
          /\ UNCHANGED <<pc, llmStatus, output, toolName, args, textOutput,
                         calls, outcome, response, thrown>>
    /\ UNCHANGED <<closeCalled, query, srv>>

\* lines 167-168: cleanup starts by calling close on the people client
StartCleanup ==
    /\ mainPc' = "closePeople"
    /\ closeCalled' = closeCalled \cup {"people"}
    /\ NoQuery

\* processQuery keeping what the call before it left in output, toolName,
\* args and textOutput
StartProcessQueryStale ==
    /\ pc' = "fetch"
    /\ llmStatus' = "none"
    /\ calls' = <<Call("llm", <<>>, EmptyObject)>>
    /\ outcome' = "none"
    /\ response' = <<>>
    /\ thrown' = "none"
    /\ UNCHANGED <<output, toolName, args, textOutput>>

\* lines 40-62: a call of processQuery starts with locals of its own, builds
\* the messages and issues the fetch
StartProcessQuery ==
    /\ pc' = "fetch"
    /\ llmStatus' = "none"
    /\ output' = <<>>
    /\ toolName' = <<>>
    /\ args' = EmptyObject
    /\ textOutput' = <<>>
    /\ calls' = <<Call("llm", <<>>, EmptyObject)>>
    /\ outcome' = "none"
    /\ response' = <<>>
    /\ thrown' = "none"

\* lines 153-157: a line is read; "quit" in any case leaves the loop (lines
\* 164, 186-187), any other line is handed to processQuery
ReadLine ==
    /\ mainPc = "question"
    /\ \E line \in Lines :
        /\ query' = line
        /\ IF ToLowerCase(line) = "quit"
           THEN StartCleanup
           ELSE /\ mainPc' = "query"
                /\ StartProcessQuery
                /\ UNCHANGED closeCalled
    /\ UNCHANGED <<conn, srv>>

\* line 153: rl.question rejects (the input is closed) and no line is read:
\* chatLoop raises and the finally block of lines 186-187 runs
QuestionRejects ==
    /\ mainPc = "question"
    /\ StartCleanup
    /\ query' = NoLine
    /\ UNCHANGED <<conn, srv>>

\* line 168 settles: on success line 169 calls close on the pubs client; a
\* rejection leaves cleanup and the finally block at once, so main rejects
ClosePeopleSettles ==
    /\ mainPc = "closePeople"
    /\ \/ /\ mainPc' = "closePubs"
          /\ closeCalled' = closeCalled \cup {"pubs"}
       \/ /\ mainPc' = "rejected"
          /\ UNCHANGED closeCalled
    /\ UNCHANGED <<conn, query, pc, llmStatus, output, toolName, args, textOutput,
                   calls, outcome, response, thrown, srv>>

\* line 169 settles: on success line 188 exits; a rejection makes main reject
ClosePubsSettles ==
    /\ mainPc = "closePubs"
    /\ \/ mainPc' = "exit0"
       \/ mainPc' = "rejected"
    /\ UNCHANGED <<conn, closeCalled, query, pc, llmStatus, output, toolName, args,
                   textOutput, calls, outcome, response, thrown, srv>>

----------------------------------------------------------------------------
(* The two gateway servers: what their CallTool handlers answer *)

\* search terms: empty, blank, the name of a record, a name of no record,
\* and a term that reads like an id line
Terms == {<<>>, <<" ">>, <<" ", "\n">>, <<"Jane">>, <<" ", "Jane">>, <<"Zed">>, <<"ID:", " ", "5">>}

\* ids asked for: one of a record of each upstream, and one of none
AskedIds == {3, 5, 9}

\* the arguments object of a request: no member or members that are
\* strings, and an id that is a number
StringArgs ==
    {EmptyObject}
    \cup {[key \in {<<"name">>} |-> JsonStr(t)] : t \in Terms}
    \cup {[key \in {<<"author">>} |-> JsonStr(t)] : t \in Terms}
    \cup {[key \in {<<"id">>} |-> JsonStr(<<"5">>)]}

NumberArgs == {[key \in {<<"id">>} |-> JsonNum(n)] : n \in AskedIds}

\* the tool names a request may carry
RequestNames == CatalogNames \cup {<<"deleteAll">>}

StringRequests == {[name |-> n, args |-> a] : n \in RequestNames, a \in StringArgs}

NumberRequests == {[name |-> n, args |-> a] : n \in RequestNames, a \in NumberArgs}

\* records of the upstream API
Jane == [id |-> 5, first_name |-> <<"Jane">>, last_name |-> <<"Doe">>, type |-> <<"Faculty">>]

John == [id |-> 7, first_name |-> <<"John">>, last_name |-> <<"Doe">>, type |-> <<>>]

Paper == [id |-> 3, title |-> <<"Graphs">>, authors |-> <<Jane>>]

Draft == [id |-> 0, title |-> <<>>, authors |-> <<John, Jane>>]

\* how the fetch of an endpoint ends: it rejects, it resolves with a status
\* that is not ok, or with status 200 and a JSON body; `data` is the list in
\* the body, and for /people/{id} the `people` member of the body, if any
NoUpstream == [kind |-> "none", status |-> 0, array |-> FALSE, data |-> <<>>]

Rejected == {[kind |-> "rejects", status |-> 0, array |-> FALSE, data |-> <<>>]}

NotOk(statuses) ==
    {[kind |-> "status", status |-> st, array |-> FALSE, data |-> <<>>] : st \in statuses}

Ok(array, lists) ==
    {[kind |-> "ok", status |-> 200, array |-> array, data |-> d] : d \in lists}

\* GET /people
PeopleResponses == Rejected \cup NotOk({500}) \cup Ok(TRUE, {<<>>, <<Jane>>, <<John, Jane>>})

\* GET /people/{id}
PersonResponses == Rejected \cup NotOk({404, 500}) \cup Ok(FALSE, {<<>>, <<Jane>>})

\* GET /publications
PublicationsResponses ==
    Rejected \cup NotOk({500}) \cup Ok(FALSE, {<<>>})
    \cup Ok(TRUE, {<<>>, <<Paper>>, <<Draft, Paper>>})

\* String.prototype.trim without its effect
TrimNone(s) == s

\* String.prototype.trim
Trim(s) ==
    LET kept == {i \in 1..Len(s) : s[i] \notin SpaceToks}
    IN  IF kept = {} THEN <<>> ELSE SubSeq(s, Min(kept), Max(kept))

\* String.prototype.toLowerCase, token by token
LowerTok(t) ==
    CASE t = "Jane" -> "jane"
      [] t = "Doe"  -> "doe"
      [] t = "John" -> "john"
      [] t = "Zed"  -> "zed"
      [] t = "ID:"  -> "id:"
      [] OTHER      -> t

Lower(s) == [i \in 1..Len(s) |-> LowerTok(s[i])]

\* String.prototype.includes
Includes(s, p) ==
    \E i \in 1..(Len(s) - Len(p) + 1) : SubSeq(s, i, i + Len(p) - 1) = p

\* a number in a template literal
RECURSIVE NumToks(_)
NumToks(n) ==
    IF n < 10 THEN <<DigitTok[n + 1]>>
    ELSE NumToks(n \div 10) \o <<DigitTok[(n % 10) + 1]>>

\* Array.prototype.join of texts
RECURSIVE Join(_, _)
Join(texts, sep) ==
    IF texts = <<>> THEN <<>>
    ELSE IF Len(texts) = 1 THEN texts[1]
    ELSE texts[1] \o sep \o Join(Tail(texts), sep)

RECURSIVE Filter(_, _)
Filter(list, keep) ==
    IF list = <<>> THEN <<>>
    ELSE IF Head(list) \in keep THEN <<Head(list)>> \o Filter(Tail(list), keep)
    ELSE Filter(Tail(list), keep)

\* z.object({ key: z.string() }).safeParse(args).success
HasString(a, key) == key \in DOMAIN a /\ a[key].t = "str"

\* z.object({ key: z.number() }).safeParse(args).success
HasNumber(a, key) == key \in DOMAIN a /\ a[key].t = "num"

\* what a handler answers: content items, or a McpError with a code
TextResult(texts) ==
    [kind |-> "content", code |-> "none",
     content |-> [i \in 1..Len(texts) |-> [type |-> "text", text |-> texts[i]]]]

McpError(code) == [kind |-> "error", code |-> code, content |-> <<>>]

NoResult == [kind |-> "none", code |-> "none", content |-> <<>>]

\* the answer of a handler and the number of upstream fetches it made
Answer(result, fetches) == [result |-> result, fetches |-> fetches]

\* whether the fetch of a helper makes it throw
Throws(up) == up.kind \in {"rejects", "status"}

\* [prefix, first_name, middle_name, last_name, suffix].filter(Boolean).join(" ")
FullName(person) == person.first_name \o <<" ">> \o person.last_name

\* mcp_server_researchers.ts, searchPeopleByName: the records whose name
\* includes the term as given, in lower case
PeopleMatching(term, data) ==
    LET lowerSearchTerm == Lower(term)
    IN  Filter(data, {person \in {data[i] : i \in 1..Len(data)} :
                        \/ Includes(Lower(FullName(person)), lowerSearchTerm)
                        \/ Includes(Lower(person.first_name), lowerSearchTerm)
                        \/ Includes(Lower(person.last_name), lowerSearchTerm)})

\* one entry of resultsText of the people search
PersonEntry(person) ==
    <<"ID:", " ">> \o NumToks(person.id) \o <<"\n", "Name: ">> \o FullName(person)
        \o <<"\n", "Type: ">> \o (IF person.type = <<>> THEN <<"Unknown">> ELSE person.type)
        \o <<"\n">>

\* case "searchPeopleByName"
SearchPeopleByName(a, up) ==
    IF ~HasString(a, <<"name">>) THEN Answer(McpError("InvalidParams"), 0)
    ELSE LET name == a[<<"name">>].v
         IN  IF Trim(name) = <<>>
             THEN Answer(TextResult(<<<<"Please provide a valid name search term.">>>>), 0)
             ELSE IF Throws(up) THEN Answer(McpError("InternalError"), 1)
             ELSE LET people == PeopleMatching(name, up.data)
                  IN  IF people = <<>>
                      THEN Answer(TextResult(<<<<"No people found matching name: ", Q>>
                                                \o name \o <<Q>>>>), 1)
                      ELSE Answer(TextResult(<<
                               <<"Found ">> \o NumToks(Len(people)) \o <<" people matching ", Q>>
                                   \o name \o <<Q, ":", "\n", "\n">>
                                   \o Join([i \in 1..Len(people) |-> PersonEntry(people[i])],
                                           <<"\n---\n">>)>>), 1)

\* the start of the details of a person; the token "..." stands for the
\* lines that follow it
PersonDetails(person) ==
    <<"PERSON DETAILS", "\n", "BASIC INFORMATION", "\n", "Name: ">> \o FullName(person)
        \o <<"\n", "ID:", " ">> \o NumToks(person.id) \o <<"\n", "...">>

\* case "getPersonById": get_person_by_Id gives null on status 404 and
\* throws on another status that is not ok
GetPersonById(a, up) ==
    IF ~HasNumber(a, <<"id">>) THEN Answer(McpError("InvalidParams"), 0)
    ELSE LET id == a[<<"id">>].v
         IN  IF up.kind = "rejects" \/ (up.kind = "status" /\ up.status # 404)
             THEN Answer(McpError("InternalError"), 1)
             ELSE IF up.kind = "status" \/ up.data = <<>>
             THEN Answer(TextResult(<<<<"No person found with ", "ID:", " ">> \o NumToks(id)>>), 1)
             ELSE Answer(TextResult(<<PersonDetails(up.data[1]),
                                      <<"\n", "RAW JSON DATA:", "\n", "...">>>>), 1)

\* the handler with getPersonById as its default case
PeopleCallToolAny(req, up) ==
    IF req.name = <<"searchPeopleByName">> THEN SearchPeopleByName(req.args, up)
    ELSE GetPersonById(req.args, up)

\* mcp_server_researchers.ts, the CallTool handler
PeopleCallTool(req, up) ==
    CASE req.name = <<"searchPeopleByName">> -> SearchPeopleByName(req.args, up)
      [] req.name = <<"getPersonById">>      -> GetPersonById(req.args, up)
      [] OTHER                               -> Answer(McpError("MethodNotFound"), 0)

\* the fetch a tool of the people server makes, when it makes one
PeopleUpstream(name) ==
    CASE name = <<"searchPeopleByName">> -> PeopleResponses
      [] name = <<"getPersonById">>      -> PersonResponses
      [] OTHER                           -> {NoUpstream}

\* fetchAllPublications throws when the fetch rejects, the status is not ok
\* or the body is not an array
FetchAllThrows(up) == Throws(up) \/ ~up.array

\* `${a.first_name} ${a.last_name}` of the authors of a publication
AuthorNames(pub) == [i \in 1..Len(pub.authors) |-> FullName(pub.authors[i])]

\* mcp_server_publications.ts, searchPublicationsByAuthor: the term trimmed
\* and in lower case, against the full name of each author
PublicationsMatching(authorTerm, data) ==
    LET term == Lower(Trim(authorTerm))
    IN  Filter(data, {pub \in {data[i] : i \in 1..Len(data)} :
                        \E i \in 1..Len(pub.authors) :
                            Includes(Lower(FullName(pub.authors[i])), term)})

\* toSummary and one entry of resultsText: the id or 0, the title or
\* 'Untitled'; the token " " stands for the indentation of the template
PublicationEntry(pub, index) ==
    NumToks(index) \o <<". Publication ", "ID:", " ">> \o NumToks(pub.id)
        \o <<"\n", " ", "Title: ">> \o (IF pub.title = <<>> THEN <<"Untitled">> ELSE pub.title)
        \o <<"\n", " ", "Author(s): ">> \o Join(AuthorNames(pub), <<", ">>)
        \o <<"\n", " ", "Category: ", "Unknown", "\n", " ", "Year: ", "0">>

\* case "searchPublicationsByAuthor"
SearchPublicationsByAuthor(a, up) ==
    IF ~HasString(a, <<"author">>) THEN Answer(McpError("InvalidParams"), 0)
    ELSE LET author == a[<<"author">>].v
         IN  IF Trim(author) = <<>>
             THEN Answer(TextResult(<<<<"Please provide a valid author search term.">>>>), 0)
             ELSE IF FetchAllThrows(up) THEN Answer(McpError("InternalError"), 1)
             ELSE LET publications == PublicationsMatching(author, up.data)
                  IN  IF publications = <<>>
                      THEN Answer(TextResult(<<<<"No publications found matching author: ", Q>>
                                                \o author \o <<Q>>>>), 1)
                      ELSE Answer(TextResult(<<
                               <<"Found ">> \o NumToks(Len(publications))
                                   \o <<" publication(s) matching ", Q>> \o author
                                   \o <<Q, ":", "\n", " ">>
                                   \o Join([i \in 1..Len(publications) |->
                                               PublicationEntry(publications[i], i)],
                                           <<"\n", "\n">>)
                                   \o <<"\n", " ",
                                        "Use the publication ID with getPublicationById ">>>>), 1)

\* the start of the details of a publication; "..." stands for the rest
PublicationDetails(pub) ==
    <<"PUBLICATION DETAILS", "\n", " ", "ID:", " ">> \o NumToks(pub.id) \o <<"\n", "...">>

\* case "getPublicationById": getPublicationById throws when no publication
\* of the list has the id, and the handler wraps what it throws
GetPublicationById(a, up) ==
    IF ~HasNumber(a, <<"id">>) THEN Answer(McpError("InvalidParams"), 0)
    ELSE LET id == a[<<"id">>].v
             found == {i \in 1..Len(up.data) : up.data[i].id = id}
         IN  IF FetchAllThrows(up) THEN Answer(McpError("InternalError"), 1)
             ELSE IF found = {} THEN Answer(McpError("InternalError"), 1)
             ELSE Answer(TextResult(<<PublicationDetails(up.data[Min(found)])>>), 1)

\* mcp_server_publications.ts, the CallTool handler
PubsCallTool(req, up) ==
    CASE req.name = <<"searchPublicationsByAuthor">> -> SearchPublicationsByAuthor(req.args, up)
      [] req.name = <<"getPublicationById">>         -> GetPublicationById(req.args, up)
      [] OTHER                                       -> Answer(McpError("MethodNotFound"), 0)

\* the fetch a tool of the publications server makes, when it makes one
PubsUpstream(name) ==
    IF name \in {<<"searchPublicationsByAuthor">>, <<"getPublicationById">>}
    THEN PublicationsResponses ELSE {NoUpstream}

\* no request has reached a gateway server
NoRequest ==
    [state |-> "idle", gw |-> "none", name |-> <<>>, args |-> EmptyObject,
     upstream |-> NoUpstream, fetches |-> 0, result |-> NoResult]

\* a server has handled a request; the upstream response is kept when the
\* handler fetched it
Answered(gw, req, up, h) ==
    [state |-> "answered", gw |-> gw, name |-> req.name, args |-> req.args,
     upstream |-> IF h.fetches = 0 THEN NoUpstream ELSE up,
     fetches |-> h.fetches, result |-> h.result]

\* the people server handles this request
PeopleHandles(req) ==
    \E up \in PeopleUpstream(req.name) :
        srv' = Answered("people", req, up, PeopleCallTool(req, up))

\* the people server handles a CallTool request
PeopleServes ==
    /\ \/ \E req \in StringRequests : PeopleHandles(req)
       \/ \E req \in NumberRequests : PeopleHandles(req)
    /\ UNCHANGED clientVars

\* the publications server handles this request
PubsHandles(req) ==
    \E up \in PubsUpstream(req.name) :
        srv' = Answered("pubs", req, up, PubsCallTool(req, up))

\* the publications server handles a CallTool request
PubsServes ==
    /\ \/ \E req \in StringRequests : PubsHandles(req)
       \/ \E req \in NumberRequests : PubsHandles(req)
    /\ UNCHANGED clientVars

----------------------------------------------------------------------------

Init ==
    /\ mainPc = "start"
    /\ conn = [g \in Gateways |-> "none"]
    /\ closeCalled = {}
    /\ query = NoLine
    /\ pc = "idle"
    /\ llmStatus = "none"
    /\ output = <<>>
    /\ toolName = <<>>
    /\ args = EmptyObject
    /\ textOutput = <<>>
    /\ calls = <<>>
    /\ outcome = "none"
    /\ response = <<>>
    /\ thrown = "none"
    /\ srv = NoRequest

Next ==
    \/ MainUsage
    \/ MainStart
    \/ \E g \in Gateways : ConnectResolves(g)
    \/ \E g \in Gateways : ConnectRejects(g)
    \/ ReadLine
    \/ QuestionRejects
    \/ FetchResolves
    \/ FetchRejects
    \/ JsonSettles
    \/ ToolSettles
    \/ FollowupSettles
    \/ ClosePeopleSettles
    \/ ClosePubsSettles

Spec == Init /\ [][Next]_vars

\* the two servers on their own, each request handled in one step
NextServers == PeopleServes \/ PubsServes

SpecServers == Init /\ [][NextServers]_vars

----------------------------------------------------------------------------
(* The client wired to the two servers: the completion names a tool, the
   server of the gateway the call goes to answers it, and processQuery goes
   on with that answer *)

\* the search terms a JSON string can hold as they are
WiredTerms == {t \in Terms : \A i \in 1..Len(t) : t[i] # "\n"}

\* the argument texts of the markers
WiredArgTexts ==
    {<<"{", Q, "name", Q, ":", Q>> \o t \o <<Q, "}">> : t \in WiredTerms}
    \cup {<<"{", Q, "author", Q, ":", Q>> \o t \o <<Q, "}">> : t \in WiredTerms}
    \cup {<<"{", Q, "id", Q, ":", " ">> \o NumToks(n) \o <<"}">> : n \in AskedIds}

\* completions that hold one marker and nothing else
WiredBodies ==
    {[kind |-> "content", content |-> <<"TOOL:">> \o n \o <<" ">> \o a] :
        n \in CatalogNames, a \in WiredArgTexts}

\* line 75 with one of those completions
JsonSettlesWired ==
    /\ mainPc = "query" /\ pc = "json"
    /\ \E body \in WiredBodies : JsonSettlesWith(body)
    /\ UNCHANGED srv

\* the callTool that is pending on this gateway, over a connection that is
\* made, and that its server has not answered yet
PendingOn(gw) ==
    /\ mainPc = "query"
    /\ pc \in {"callTool", "followup"}
    /\ calls[Len(calls)].to = gw
    /\ calls[Len(calls)].result = "pending"
    /\ conn[gw] = "connected"
    /\ srv.state # "answered"

\* the request that callTool sends
RequestOf(call) == [name |-> call.name, args |-> call.args]

\* the people server handles the pending call
PeopleServesCall ==
    /\ PendingOn("people")
    /\ PeopleHandles(RequestOf(calls[Len(calls)]))
    /\ UNCHANGED clientVars

\* the publications server handles the pending call
PubsServesCall ==
    /\ PendingOn("pubs")
    /\ PubsHandles(RequestOf(calls[Len(calls)]))
    /\ UNCHANGED clientVars

\* what callTool gives the client for an answer of a server: the content,
\* or a rejection for a McpError
ReplyOf(result) == [ok |-> result.kind = "content", content |-> result.content]

\* lines 105-138 with the answer of the server
ToolSettlesServed ==
    /\ srv.state = "answered"
    /\ ToolSettlesWith(ReplyOf(srv.result))
    /\ srv' = [srv EXCEPT !.state = "received"]

\* lines 126-135 with the answer of the server
FollowupSettlesServed ==
    /\ srv.state = "answered"
    /\ FollowupSettlesWith(ReplyOf(srv.result))
    /\ srv' = [srv EXCEPT !.state = "received"]

NextWired ==
    \/ MainStart
    \/ \E g \in Gateways : ConnectResolves(g)
    \/ ReadLine
    \/ FetchResolves
    \/ JsonSettlesWired
    \/ PeopleServesCall
    \/ PubsServesCall
    \/ ToolSettlesServed
    \/ FollowupSettlesServed

SpecWired == Init /\ [][NextWired]_vars

----------------------------------------------------------------------------
(* The claims *)

\* the gateway calls of the running (or last) processQuery
GatewayCalls == {i \in 1..Len(calls) : calls[i].to \in Gateways}

\* C1: whenever the tool name extracted from the LLM output is not one of the
\* four catalog names, no call is made on either gateway and the query ends
\* in failure.
C1_UnknownToolNeverDispatched ==
    (toolName # <<>> /\ toolName \notin CatalogNames)
        => /\ GatewayCalls = {}
           /\ pc = "done" => outcome = "threw"

\* C2: every gateway call named searchPeopleByName or getPersonById is sent to
\* the people client and every call named searchPublicationsByAuthor or
\* getPublicationById to the pubs client, the first call and the follow-up
\* alike.
C2_CallsGoToOwner ==
    \A i \in GatewayCalls :
        /\ calls[i].name \in {<<"searchPeopleByName">>, <<"getPersonById">>}
              => calls[i].to = "people"
        /\ calls[i].name \in {<<"searchPublicationsByAuthor">>, <<"getPublicationById">>}
              => calls[i].to = "pubs"

\* a publications search and its follow-up have both been sent to pubs
C2_Witness ==
    /\ Len(calls) = 3
    /\ calls[2].name = <<"searchPublicationsByAuthor">> /\ calls[2].to = "pubs"
    /\ calls[3].name = <<"getPublicationById">> /\ calls[3].to = "pubs"

C4_NoMarkerReturnsText ==
    [][(pc = "json" /\ pc' \in {"callTool", "done"} /\ thrown' \notin {"json", "resolve"}
          /\ ~ToolMatch(output').found)
       => /\ pc' = "done"
          /\ outcome' = "returned"
          /\ Contains(response', output')
          /\ Len(response') = Len(output')
          /\ Len(calls') = Len(calls)
          /\ GatewayCalls = {}]_vars

\* a text with a stray TOOL: token and no marker has been returned as it is
C4_Witness ==
    /\ pc = "done"
    /\ outcome = "returned"
    /\ output = <<"TOOL:", " ", "X">>
    /\ response = output
    /\ GatewayCalls = {}

\* C5: when the tool is a search tool and the text of its result carries
\* ID: <digits>, exactly one follow-up call is issued, to the paired detail
\* tool, with arguments {id: N}, N the value of the first such digit run.
C5_FollowupOnId ==
    (toolName \in SearchTools /\ IdMatch(textOutput).found)
        => /\ Len(calls) = 3
           /\ calls[3].name =
                 (IF toolName = <<"searchPeopleByName">>
                  THEN <<"getPersonById">> ELSE <<"getPublicationById">>)
           /\ DOMAIN calls[3].args = {<<"id">>}
           /\ calls[3].args[<<"id">>] = JsonNum(ParseInt(IdMatch(textOutput).digits))
           /\ textOutput = <<"ID:", "\n", "4", "2", " ", "ID:", "0", "7">>
                 => calls[3].args[<<"id">>].v = 42
           /\ textOutput = <<"4", "2", " ", "ID:", "0", "7">>
                 => calls[3].args[<<"id">>].v = 7

\* a people search whose text holds two ID: runs was followed up with the
\* first of them
C5_Witness ==
    /\ toolName = <<"searchPeopleByName">>
    /\ textOutput = <<"ID:", "\n", "4", "2", " ", "ID:", "0", "7">>
    /\ Len(calls) = 3
    /\ calls[3].name = <<"getPersonById">>
    /\ calls[3].args[<<"id">>].v = 42

\* C6: when the tool is a search tool and the text of its result carries no
\* ID: <digits>, processQuery returns the "no valid ID found" message holding
\* that text verbatim, and the search is the only gateway call.
C6_NoIdNoFollowup ==
    (/\ toolName \in SearchTools
     /\ Len(calls) >= 2
     /\ calls[2].result = "resolved"
     /\ ~IdMatch(textOutput).found)
        => /\ pc = "done"
           /\ outcome = "returned"
           /\ response = <<"Search complete, but no valid ID found:\n">> \o textOutput
           /\ Cardinality(GatewayCalls) = 1

\* a search answered with the text "ID:" alone: the token without digits
C6_Witness ==
    /\ toolName = <<"searchPublicationsByAuthor">>
    /\ Len(calls) = 2
    /\ calls[2].result = "resolved"
    /\ textOutput = <<"ID:">>
    /\ outcome = "returned"

\* C7: when a gateway call of the query rejects, the first call or the
\* follow-up, processQuery ends in failure and returns no string.
C7_GatewayErrorFails ==
    (\E i \in GatewayCalls : calls[i].result = "rejected")
        => /\ pc = "done"
           /\ outcome = "threw"
           /\ response = <<>>

\* the search resolved with an ID and the follow-up rejected
C7_Witness ==
    /\ Len(calls) = 3
    /\ calls[2].result = "resolved"
    /\ calls[3].result = "rejected"
    /\ textOutput # <<>>
    /\ outcome = "threw"

\* C8: when the completion endpoint answers with a non-success status,
\* processQuery does not return a response string: it raises.
C8_ErrorStatusRaises ==
    (llmStatus = "error" /\ pc = "done") => outcome = "threw"

\* the stages of one processQuery, in order
Rank(p) ==
    CASE p = "idle"     -> 0
      [] p = "fetch"    -> 1
      [] p = "json"     -> 2
      [] p = "callTool" -> 3
      [] p = "followup" -> 4
      [] OTHER          -> 5

\* the order of the external calls in every state
C9_CallOrder ==
    /\ Len(calls) <= 3
    /\ \A i \in 1..Len(calls) : (i = 1) <=> (calls[i].to = "llm")
    /\ \A i \in 1..(Len(calls) - 1) : calls[i].result = "resolved"
    /\ pc \in {"fetch", "json"} => Len(calls) = 1
    /\ pc = "fetch" => calls[1].result = "pending"
    /\ pc = "callTool" => Len(calls) = 2 /\ calls[2].result = "pending"
    /\ pc = "followup" => Len(calls) = 3 /\ calls[3].result = "pending"
    /\ pc = "done" => calls[Len(calls)].result # "pending"
    /\ Len(calls) = 3
          => /\ calls[2].name \in SearchTools
             /\ IdMatch(textOutput).found
             /\ calls[3].name \in GetTools
             /\ calls[3].to = calls[2].to

\* a run only moves forward: a step changes the stage to a later one, or
\* starts a new run, or ends the frame; and it never rewrites a call issued
C9_Forward ==
    /\ pc' # pc => (Rank(pc') > Rank(pc) \/ pc' \in {"fetch", "idle"})
    /\ pc' \notin {"fetch", "idle"}
          => /\ Len(calls') >= Len(calls)
             /\ \A i \in 1..Len(calls) :
                   /\ calls'[i].to = calls[i].to
                   /\ calls'[i].name = calls[i].name

\* C9: within one processQuery the external calls are the completion call,
\* then the first gateway call, then the detail call (only after a search
\* result with an ID); each is issued after the previous one was answered,
\* no stage is revisited, and the detail call goes to the gateway of the
\* search call.
C9_StagesInOrder == [](C9_CallOrder) /\ [][C9_Forward]_vars

\* the detail call is pending on the gateway that answered the search
C9_Witness ==
    /\ pc = "followup"
    /\ calls[1].to = "llm" /\ calls[1].result = "resolved"
    /\ calls[2].to = "people" /\ calls[2].result = "resolved"
    /\ calls[3].to = "people" /\ calls[3].result = "pending"

\* C10: when main ends after the client was made, close has been called on
\* both gateways, also when closing one of them failed.
C10_BothClosedAtEnd ==
    mainPc \in {"exit0", "rejected"} => closeCalled = Gateways

\* C11: when the tool is getPersonById or getPublicationById and its call
\* resolves, processQuery returns "Tool Output:" followed by the text of the
\* result, and that call is the only gateway call of the query, also when the
\* text holds ID: <digits>.
C11_GetByIdSingleCall ==
    (/\ Len(calls) >= 2
     /\ calls[2].name \in {<<"getPersonById">>, <<"getPublicationById">>})
        => /\ Cardinality(GatewayCalls) = 1
           /\ pc # "followup"
           /\ calls[2].result = "resolved"
                 => /\ pc = "done"
                    /\ outcome = "returned"
                    /\ response = <<"Tool Output:\n">> \o textOutput

\* getPersonById answered with a text that holds ID: 07
C11_Witness ==
    /\ Len(calls) = 2
    /\ calls[2].name = <<"getPersonById">>
    /\ calls[2].result = "resolved"
    /\ response = <<"Tool Output:\n", "4", "2", " ", "ID:", "0", "7">>

\* the text items of a content list
IsText(item) == item.type = "text"

\* the texts of the first n of those items, a newline between two of them
RECURSIVE JoinLines(_, _)
JoinLines(items, n) ==
    IF n = 0 THEN <<>>
    ELSE IF n = 1 THEN items[1].text
    ELSE JoinLines(items, n - 1) \o <<"\n">> \o items[n].text

\* the text a content list carries
TextOf(content) ==
    LET items == SelectSeq(content, IsText)
    IN  JoinLines(items, Len(items))

\* C12: when the search and the follow-up have both resolved, processQuery
\* returns "Search Result:" with the text of the search result, then
\* "Detailed Info:" with the text of the follow-up result, both unmodified.
C12_SearchThenDetail ==
    (Len(calls) = 3 /\ calls[3].result = "resolved")
        => /\ pc = "done"
           /\ outcome = "returned"
           /\ response = <<"Search Result:\n">> \o TextOf(calls[2].content)
                             \o <<"\n\nDetailed Info:\n">> \o TextOf(calls[3].content)

\* a search text with an ID and a different detail text, both in the response
C12_Witness ==
    /\ Len(calls) = 3
    /\ calls[2].content = <<[type |-> "text", text |-> <<"4", "2", " ", "ID:", "0", "7">>]>>
    /\ calls[3].content = <<[type |-> "text", text |-> <<"ID:">>]>>
    /\ response = <<"Search Result:\n", "4", "2", " ", "ID:", "0", "7",
                    "\n\nDetailed Info:\n", "ID:">>

\* C16: when the body of the completion response has no choices, no first
\* choice, no message or no content, the output is the empty string and
\* processQuery returns it as the no-tool outcome: it does not raise and it
\* makes no gateway call.
C16_MissingFieldsReturnEmpty ==
    (calls # <<>> /\ calls[1].body \in {"nochoices", "emptychoices", "nomessage", "nocontent"})
        => /\ pc = "done"
           /\ outcome = "returned"
           /\ thrown = "none"
           /\ output = <<>>
           /\ response = <<>>
           /\ GatewayCalls = {}

\* a body whose first choice has no message was returned as ""
C16_Witness ==
    /\ calls # <<>>
    /\ calls[1].body = "nomessage"
    /\ outcome = "returned"
    /\ response = <<>>

\* C18: when no tool call is detected, the string processQuery returns holds
\* the LLM text and, with it, a label saying that no tool call was detected.
C18_NoToolLabelled ==
    (pc = "done" /\ outcome = "returned" /\ Len(calls) = 1)
        => /\ Contains(response, output)
           /\ Len(response) > Len(output)

\* C19: the text taken from the content list of a resolved gateway call, the
\* first call or the follow-up, is the text of its items of type "text", in
\* order, with one newline between two of them; other items add nothing.
C19_TextItemsJoined ==
    /\ (Len(calls) >= 2 /\ calls[2].result = "resolved")
          => textOutput = TextOf(calls[2].content)
    /\ (Len(calls) = 3 /\ calls[3].result = "resolved")
          => \E k \in 1..Len(response) :
                /\ response[k] = "\n\nDetailed Info:\n"
                /\ SubSeq(response, k + 1, Len(response)) = TextOf(calls[3].content)

\* a search answered with a text, an image and a text, and its follow-up
\* answered with an image before a text
C19_Witness ==
    /\ Len(calls) = 3
    /\ calls[2].content = <<[type |-> "text", text |-> <<"4", "2", " ", "ID:", "0", "7">>],
                            [type |-> "image", text |-> <<>>]>>
    /\ calls[3].content = <<[type |-> "image", text |-> <<>>],
                            [type |-> "text", text |-> <<"ID:">>]>>
    /\ response = <<"Search Result:\n", "4", "2", " ", "ID:", "0", "7",
                    "\n\nDetailed Info:\n", "ID:">>

\* argument texts that are JSON objects without an inner closing brace, each
\* with the object it denotes
WellFormedArgs ==
    {[text |-> <<"{", "}">>,
      value |-> [key \in {} |-> 0]],
     [text |-> <<"{", Q, "id", Q, ":", " ", "4", "2", "}">>,
      value |-> [key \in {<<"id">>} |-> [t |-> "num", v |-> 42]]],
     [text |-> <<"{", Q, "name", Q, ":", Q, "Jane", " ", "X", Q, "}">>,
      value |-> [key \in {<<"name">>} |-> [t |-> "str", v |-> <<"Jane", " ", "X">>]]],
     [text |-> <<"{", Q, "id", Q, ":", "1", ",", Q, "id", Q, ":", "2", "}">>,
      value |-> [key \in {<<"id">>} |-> [t |-> "num", v |-> 2]]]}

\* identifiers: one run of word characters
Identifiers ==
    {<<"searchPeopleByName">>, <<"getPersonById">>, <<"searchPublicationsByAuthor">>,
     <<"getPublicationById">>, <<"deleteAll">>, <<"searchPeopleByName", "X">>,
     <<"getPersonById", "7">>}

\* a well-formed marker with the name and the arguments it states
WellFormedMarkers ==
    {[text |-> <<"TOOL:">> \o n \o s \o a.text, name |-> n, args |-> a.value] :
        n \in Identifiers, s \in {<<" ">>, <<"\n", " ">>}, a \in WellFormedArgs}

\* prose without a well-formed marker: before the marker, where the last one
\* opens a brace, and after it, where the last one is a marker JSON rejects
ProseBefore == {<<>>, <<"X">>, <<" ">>, <<"TOOL:">>, <<"TOOL:", "X", " ", "{", " ">>}

ProseAfter ==
    {<<>>, <<" ", "X">>, <<"\n", "TOOL:", "getPersonById", " ", "{", "id", "}">>}

\* the texts that hold exactly one well-formed marker
OneMarkerTexts ==
    {[text |-> p \o m.text \o t, name |-> m.name, args |-> m.args] :
        p \in ProseBefore, m \in WellFormedMarkers, t \in ProseAfter}

\* the texts that start, after prose that opens no marker, with a well-formed
\* marker, whatever follows it: prose or a second marker
FirstMarkerTexts ==
    {[text |-> p \o m.text \o t, name |-> m.name, args |-> m.args] :
        p \in {<<>>, <<"X">>, <<" ">>, <<"TOOL:">>},
        m \in WellFormedMarkers,
        t \in ProseAfter \cup
               {<<"\n", "TOOL:", "getPersonById", " ", "{", Q, "id", Q, ":", "1", "}">>}}

\* the extraction of lines 85-101 has yielded this tool call
Yielded(name, a) ==
    /\ Len(calls) >= 2
    /\ calls[2].name = name
    /\ calls[2].args = a
    /\ toolName = name
    /\ args = a

\* C20 as stated: for every LLM text that holds exactly one well-formed
\* TOOL:name {json} marker, whatever the prose before and after it, the
\* extraction yields the call with that name and the object of that JSON.
C20_MarkerExtracted ==
    \A w \in OneMarkerTexts : output = w.text => Yielded(w.name, w.args)

\* C20, amended: for every LLM text in which no prose before the first
\* well-formed marker opens a marker of its own, the extraction yields the
\* call with the name and the JSON object of that first marker, whatever
\* follows it.
C20_FirstMarkerExtracted ==
    \A w \in FirstMarkerTexts : output = w.text => Yielded(w.name, w.args)

\* prose, a marker with an id, and a second marker that JSON rejects
C20_Witness ==
    /\ output = <<"X", "TOOL:", "getPersonById", " ", "{", Q, "id", Q, ":", " ", "4", "2", "}",
                  "\n", "TOOL:", "getPersonById", " ", "{", "id", "}">>
    /\ pc = "callTool"
    /\ calls[2].name = <<"getPersonById">>
    /\ calls[2].args[<<"id">>].v = 42

\* the stages in which a processQuery is running
InFlight == {"fetch", "json", "callTool", "followup"}

\* a step of chatLoop that reads a line: "quit" in any letter case ends the
\* loop and starts no processQuery, any other line starts exactly one
C14_LineRead ==
    (mainPc = "question" /\ mainPc' \in {"query", "closePeople"} /\ query' # NoLine)
        => IF query' \in {"quit", "QUIT", "Quit"}
           THEN mainPc' = "closePeople" /\ pc' = "idle" /\ calls' = <<>>
           ELSE mainPc' = "query" /\ pc' = "fetch" /\ Len(calls') = 1

\* a step that ends a processQuery hands its response or its error to the
\* loop, which goes on to ask for the next line
C14_QueryEnd ==
    (pc \in InFlight /\ pc' = "done")
        => /\ mainPc' = "question"
           /\ outcome' \in {"returned", "threw"}

\* C14: a turn of the loop ends the loop exactly when its line is "quit" in
\* any letter case, without calling processQuery, and otherwise runs one
\* processQuery to its end before the next line is read; a query that failed
\* leaves the loop and the process running, and the next line is accepted.
C14_OneQueryPerTurn ==
    /\ [](mainPc = "question" => pc \in {"idle", "done"})
    /\ [](pc \in InFlight => mainPc = "query")
    /\ [](pc = "done" => mainPc = "question" /\ ENABLED ReadLine)
    /\ [][C14_LineRead /\ C14_QueryEnd]_vars

\* a query has failed and the loop is asking for the next line
C14_Witness ==
    /\ pc = "done"
    /\ outcome = "threw"
    /\ mainPc = "question"
    /\ query = NoLine

\* a step of a running processQuery leaves the fields of the client alone
C15_FieldsKept ==
    (pc \in InFlight /\ pc' \in InFlight \cup {"done"} /\ pc' # pc)
        => conn' = conn /\ closeCalled' = closeCalled

\* C15: nothing passes from one query to the next: a processQuery starts with
\* locals of its own, what it holds comes from its own LLM output and gateway
\* results, and its steps leave the gateway clients of the MCPClient as
\* they were.
C15_NoStateAcrossQueries ==
    /\ [](pc = "fetch" => /\ output = <<>> /\ toolName = <<>> /\ args = EmptyObject
                          /\ textOutput = <<>> /\ Len(calls) = 1
                          /\ outcome = "none" /\ response = <<>> /\ thrown = "none")
    /\ [](Len(calls) = 1 => /\ textOutput = <<>>
                            /\ toolName # <<>> => pc = "done" /\ thrown = "parse")
    /\ [][C15_FieldsKept]_vars

\* a query with a search and a follow-up has ended, both gateways connected
\* as before it
C15_Witness ==
    /\ pc = "done"
    /\ Len(calls) = 3
    /\ outcome = "returned"
    /\ conn = [g \in Gateways |-> "connected"]
    /\ closeCalled = {}

\* the search term of the request a server has answered: the string under
\* `name` at the people server, under `author` at the publications server
TermKey == IF srv.gw = "people" THEN <<"name">> ELSE <<"author">>

SearchAnswered ==
    /\ srv.state = "answered"
    /\ \/ srv.gw = "people" /\ srv.name = <<"searchPeopleByName">>
       \/ srv.gw = "pubs" /\ srv.name = <<"searchPublicationsByAuthor">>
    /\ TermKey \in DOMAIN srv.args
    /\ srv.args[TermKey].t = "str"

\* a get-by-id request with a number has been answered by its server
GetAnswered ==
    /\ srv.state = "answered"
    /\ \/ srv.gw = "people" /\ srv.name = <<"getPersonById">>
       \/ srv.gw = "pubs" /\ srv.name = <<"getPublicationById">>
    /\ <<"id">> \in DOMAIN srv.args
    /\ srv.args[<<"id">>].t = "num"

\* the upstream answered the lookup and holds no record for it: a search
\* over no records or for a name no record has, a person endpoint answering
\* 404 or without a person, a publication list without the id
FoundNothing ==
    \/ /\ SearchAnswered
       /\ srv.upstream.kind = "ok" /\ srv.upstream.array
       /\ srv.upstream.data = <<>> \/ srv.args[TermKey].v = <<"Zed">>
    \/ /\ GetAnswered /\ srv.gw = "people"
       /\ \/ srv.upstream.kind = "status" /\ srv.upstream.status = 404
          \/ srv.upstream.kind = "ok" /\ srv.upstream.data = <<>>
    \/ /\ GetAnswered /\ srv.gw = "pubs"
       /\ srv.upstream.kind = "ok" /\ srv.upstream.array
       /\ \A i \in 1..Len(srv.upstream.data) :
              srv.upstream.data[i].id # srv.args[<<"id">>].v

\* C13: on both servers a lookup that finds nothing, a search or a get by
\* id, is answered with content items of text and never with a McpError.
C13_NotFoundIsText ==
    FoundNothing
        => /\ srv.result.kind = "content"
           /\ srv.result.code = "none"
           /\ srv.result.content # <<>>

C21_ConnectedBeforeCall ==
    /\ mainPc \in {"question", "query"} => \A g \in Gateways : conn[g] = "connected"
    /\ \A i \in GatewayCalls :
          calls[i].result = "pending" => conn[calls[i].to] = "connected"

\* a request naming a tool that the server it reached does not own
ForeignTool ==
    /\ srv.state = "answered"
    /\ \/ srv.gw = "people"
          /\ srv.name \notin {<<"searchPeopleByName">>, <<"getPersonById">>}
       \/ srv.gw = "pubs"
          /\ srv.name \notin {<<"searchPublicationsByAuthor">>, <<"getPublicationById">>}

\* C23: a server answers a call that names a tool other than its own two,
\* a tool of the other server included, with the McpError MethodNotFound,
\* without content and without a fetch to the upstream API.
C23_ForeignToolNotFound ==
    ForeignTool
        => /\ srv.result.kind = "error"
           /\ srv.result.code = "MethodNotFound"
           /\ srv.result.content = <<>>
           /\ srv.fetches = 0
           /\ srv.upstream = NoUpstream

\* the people server was asked for getPublicationById with a valid id
C23_Witness ==
    /\ srv.state = "answered"
    /\ srv.gw = "people"
    /\ srv.name = <<"getPublicationById">>
    /\ DOMAIN srv.args = {<<"id">>}
    /\ srv.args[<<"id">>].t = "num"
    /\ srv.result.code = "MethodNotFound"

\* whether a text holds ID: and, after whitespace or none, a digit
CarriesId(text) ==
    \E i \in 1..Len(text) : \E j \in (i + 1)..Len(text) :
        /\ text[i] = "ID:"
        /\ text[j] \in {"0", "1", "2", "3", "4", "5", "6", "7", "8", "9"}
        /\ \A k \in (i + 1)..(j - 1) : text[k] \in {" ", "\n"}

\* the number of gateway calls a processQuery that is over has to have made
ExpectedGatewayCalls ==
    IF Len(calls) = 1 \/ thrown \in {"fetch", "json", "resolve", "parse"} THEN 0
    ELSE IF /\ calls[2].name \in {<<"searchPeopleByName">>, <<"searchPublicationsByAuthor">>}
            /\ calls[2].result = "resolved"
            /\ CarriesId(TextOf(calls[2].content))
    THEN 2
    ELSE 1

\* C24: a processQuery makes one completion call, the first of its calls,
\* and then at most two gateway calls, one at a time: none when no tool is
\* detected or the arguments are malformed, two when a search resolves with
\* a text that carries an ID, one otherwise; no call is made again and the
\* follow-up is the last call.
C24_CallCounts ==
    /\ pc # "idle" => /\ Len(calls) \in 1..3
                      /\ calls[1].to = "llm"
                      /\ \A i \in 2..Len(calls) : calls[i].to \in Gateways
                      /\ \A i \in 1..(Len(calls) - 1) : calls[i].result = "resolved"
    /\ pc = "done" => /\ \A i \in 1..Len(calls) : calls[i].result # "pending"
                      /\ Cardinality(GatewayCalls) = ExpectedGatewayCalls
                      /\ (toolName = <<>> \/ thrown = "parse") => GatewayCalls = {}

\* a search whose text carried an ID has ended after its follow-up, whose
\* own text carried an ID too
C24_Witness ==
    /\ pc = "done"
    /\ Len(calls) = 3
    /\ calls[2].name = <<"searchPeopleByName">>
    /\ calls[3].result = "resolved"
    /\ CarriesId(TextOf(calls[3].content))

\* the records the search just received found in the upstream data
RecordsFound ==
    IF srv.result.kind # "content" \/ srv.upstream.kind # "ok" THEN <<>>
    ELSE IF srv.gw = "people"
    THEN PeopleMatching(srv.args[<<"name">>].v, srv.upstream.data)
    ELSE PublicationsMatching(srv.args[<<"author">>].v, srv.upstream.data)

\* C22: a follow-up is issued only after a search that found a record, and
\* the id it passes is the id of the first record the search listed,
\* whatever the search term: the term echoed in the result text gives no id.
C22_FollowupFromRecord ==
    (/\ pc = "followup"
     /\ calls[3].result = "pending"
     /\ srv.state = "received"
     /\ srv.name = calls[2].name)
        => /\ RecordsFound # <<>>
           /\ calls[3].args[<<"id">>].v = RecordsFound[1].id

====
